---- MODULE Spec2Model ----
(***************************************************************************)
(* Model of the obsidian-command-group plugin: the Vim-style key-notation  *)
(* parser (utils/vim-key-parser.ts), the sequence-key matcher of the       *)
(* arrow-key selection modal and the sequence-key field of the settings    *)
(* tab.  JavaScript strings are modelled as tuples of one-character        *)
(* strings, so that trim, slice, split and the case conversions are        *)
(* computed character by character as the code computes them.              *)
(***************************************************************************)
EXTENDS Integers, Sequences, FiniteSets, TLC

VARIABLES
    input,          \* parser harness: the string handed to parseVimKey
    parsed,         \* parser harness: what parseVimKey returned or threw
    items,          \* ArrowKeySelectionModal.items
    modalOpen,      \* the modal is open: on screen, its scope pushed
    selectedIndex,  \* ArrowKeySelectionModal.selectedIndex (0-based, as in the code)
    onSelectCalls,  \* the calls of onSelect so far: item position (1-based) and cause
    sequenceKeyHandler,  \* the modal's keydown listener is registered on the document
    dispatch,       \* the keydown event being dispatched and the handler's locals
    commandGroups,  \* plugin.settings.commandGroups
    field,          \* the focused sequence-key input: its text, the key stored at focus
    lastEdit,       \* the last blur: what validateKey was given and decided, the text shown after
    obsidianCommands,         \* per group, what each command's obsidianCommand runs
    modals,                   \* the selection modals the group callbacks constructed
    activeCommandGroupModal,  \* CommandGroupPlugin.activeCommandGroupModal (0 is null)
    pluginLoaded,             \* between onload and onunload
    appCommands,              \* app.commands.commands: the registered commands
    data,                     \* the settings object handed to migrateSettingsToHashIds
    migrations                \* the runs of the migration: settings before and after, result

(***************************************************************************)
(* Bounds                                                                  *)
(***************************************************************************)
\* longest free sequence of modifier segments in a generated notation
MaxMods == 2

\* longest item list handed to a selection modal
MaxItems == 2

\* most command groups in the settings
MaxGroups == 2

\* most commands in the settings, all groups together
MaxCommands == 3

\* most selection modals the group callbacks construct in one behaviour
MaxModals == 3

\* most IDs, of groups and commands together, in the settings to migrate
MaxIds == 3

\* most runs of the migration on the same settings
MaxRuns == 2

\* most groups in the settings whose commands are registered
MaxRegistered == 3

(***************************************************************************)
(* JavaScript string primitives                                            *)
(***************************************************************************)
UpperSeq == <<"A","B","C","D","E","F","G","H","I","J","K","L","M","N","O","P","Q","R","S","T","U","V","W","X","Y","Z">>

LowerSeq == <<"a","b","c","d","e","f","g","h","i","j","k","l","m","n","o","p","q","r","s","t","u","v","w","x","y","z">>

\* /[A-Z]/.test(c) for a single character
IsUpper(c) == \E i \in 1..Len(UpperSeq) : UpperSeq[i] = c

\* /[a-z]/.test(c) for a single character
IsLower(c) == \E i \in 1..Len(LowerSeq) : LowerSeq[i] = c

toLowerChar(c) ==
    IF IsUpper(c) THEN LowerSeq[CHOOSE i \in 1..Len(UpperSeq) : UpperSeq[i] = c] ELSE c

toUpperChar(c) ==
    IF IsLower(c) THEN UpperSeq[CHOOSE i \in 1..Len(LowerSeq) : LowerSeq[i] = c] ELSE c

\* String.prototype.toLowerCase
toLowerCase(s) == [i \in 1..Len(s) |-> toLowerChar(s[i])]

\* String.prototype.toUpperCase
toUpperCase(s) == [i \in 1..Len(s) |-> toUpperChar(s[i])]

RECURSIVE trimStart(_)
trimStart(s) ==
    IF s # <<>> /\ Head(s) = " " THEN trimStart(Tail(s)) ELSE s

RECURSIVE trimEnd(_)
trimEnd(s) ==
    IF s # <<>> /\ s[Len(s)] = " " THEN trimEnd(SubSeq(s, 1, Len(s) - 1)) ELSE s

\* String.prototype.trim
trim(s) == trimEnd(trimStart(s))

\* String.prototype.startsWith, for a one-character prefix
startsWith(s, c) == Len(s) >= 1 /\ s[1] = c

\* String.prototype.endsWith, for a one-character suffix
endsWith(s, c) == Len(s) >= 1 /\ s[Len(s)] = c

\* s.slice(1, -1)
sliceInner(s) == SubSeq(s, 2, Len(s) - 1)

\* String.prototype.split for a one-character separator: the pieces between
\* separators, empty pieces included, always at least one piece
RECURSIVE split(_, _)
split(s, sep) ==
    IF \A i \in 1..Len(s) : s[i] # sep
    THEN <<s>>
    ELSE LET p == CHOOSE i \in 1..Len(s) :
                      s[i] = sep /\ \A j \in 1..(i - 1) : s[j] # sep
         IN <<SubSeq(s, 1, p - 1)>> \o split(SubSeq(s, p + 1, Len(s)), sep)

(***************************************************************************)
(* utils/vim-key-parser.ts                                                 *)
(***************************************************************************)
\* name -> DOM key name, as pairs
SPECIAL_KEY_MAP ==
    { <<<<"E","s","c">>, <<"E","s","c","a","p","e">>>>, <<<<"C","R">>, <<"E","n","t","e","r">>>>, <<<<"E","n","t","e","r">>, <<"E","n","t","e","r">>>>,
      <<<<"R","e","t","u","r","n">>, <<"E","n","t","e","r">>>>, <<<<"T","a","b">>, <<"T","a","b">>>>, <<<<"S","p","a","c","e">>, <<" ">>>>,
      <<<<"B","S">>, <<"B","a","c","k","s","p","a","c","e">>>>, <<<<"B","a","c","k","s","p","a","c","e">>, <<"B","a","c","k","s","p","a","c","e">>>>,
      <<<<"D","e","l">>, <<"D","e","l","e","t","e">>>>, <<<<"D","e","l","e","t","e">>, <<"D","e","l","e","t","e">>>>,
      <<<<"H","o","m","e">>, <<"H","o","m","e">>>>, <<<<"E","n","d">>, <<"E","n","d">>>>,
      <<<<"P","a","g","e","U","p">>, <<"P","a","g","e","U","p">>>>, <<<<"P","a","g","e","D","o","w","n">>, <<"P","a","g","e","D","o","w","n">>>>,
      <<<<"F","1">>, <<"F","1">>>>, <<<<"F","2">>, <<"F","2">>>>, <<<<"F","3">>, <<"F","3">>>>, <<<<"F","4">>, <<"F","4">>>>,
      <<<<"F","5">>, <<"F","5">>>>, <<<<"F","6">>, <<"F","6">>>>, <<<<"F","7">>, <<"F","7">>>>, <<<<"F","8">>, <<"F","8">>>>,
      <<<<"F","9">>, <<"F","9">>>>, <<<<"F","1","0">>, <<"F","1","0">>>>, <<<<"F","1","1">>, <<"F","1","1">>>>, <<<<"F","1","2">>, <<"F","1","2">>>> }

\* the reserved set with Enter and Escape forgotten
RESERVED_KEYS_ArrowsOnly ==
    { <<"A","r","r","o","w","U","p">>, <<"A","r","r","o","w","D","o","w","n">>, <<"A","r","r","o","w","L","e","f","t">>, <<"A","r","r","o","w","R","i","g","h","t">>,
      <<"U","p">>, <<"D","o","w","n">>, <<"L","e","f","t">>, <<"R","i","g","h","t">> }

RESERVED_KEYS ==
    { <<"A","r","r","o","w","U","p">>, <<"A","r","r","o","w","D","o","w","n">>, <<"A","r","r","o","w","L","e","f","t">>, <<"A","r","r","o","w","R","i","g","h","t">>,
      <<"U","p">>, <<"D","o","w","n">>, <<"L","e","f","t">>, <<"R","i","g","h","t">>,
      <<"E","n","t","e","r">>, <<"E","s","c","a","p","e">> }

\* a returned ParsedVimKey
ParsedVimKey(mods, k) ==
    [ok |-> TRUE, modifiers |-> mods, key |-> k, error |-> "", token |-> <<>>]

\* a thrown Error: its message prefix and the text the message builds from
\* its values (the key, the input, or the segment followed by " in " and the input)
ThrownError(msg, tok) ==
    [ok |-> FALSE, modifiers |-> <<>>, key |-> <<>>, error |-> msg, token |-> tok]

ErrEmpty == "Key sequence cannot be empty"

ErrInvalid == "Invalid key sequence"

ErrUnknownModifier == "Unknown modifier"

ErrReserved == "is reserved for modal navigation"

\* the switch on parts[i].toUpperCase()
ModifierLetters == { <<"C">>, <<"S">>, <<"A">>, <<"M">> }

ModifierOf(mod) ==
    CASE mod = <<"C">> -> "Ctrl"
      [] mod = <<"S">> -> "Shift"
      [] mod = <<"A">> -> "Alt"
      [] mod = <<"M">> -> "Meta"

\* SPECIAL_KEY_MAP[keyPart] is truthy
HasSpecialKey(keyPart) == \E e \in SPECIAL_KEY_MAP : e[1] = keyPart

SpecialKey(keyPart) == (CHOOSE e \in SPECIAL_KEY_MAP : e[1] = keyPart)[2]

\* Map the key part to the actual key name
ResolveKey(keyPart) ==
    IF HasSpecialKey(keyPart) THEN SpecialKey(keyPart) ELSE toLowerCase(keyPart)

\* parseAngleBracketNotation whose switch reads parts[i] without toUpperCase
parseAngleBracketNotationCaseSensitive(in) ==
    LET content == sliceInner(in)
        parts == split(content, "-")
        n == Len(parts)
        keyPart == parts[n]
        unknown == { i \in 1..(n - 1) : parts[i] \notin ModifierLetters }
        firstUnknown == CHOOSE i \in unknown : \A j \in unknown : i <= j
        modifiers == [i \in 1..(n - 1) |-> ModifierOf(parts[i])]
        key == ResolveKey(keyPart)
    IN  IF n = 0 THEN ThrownError(ErrInvalid, in)
        ELSE IF unknown # {}
             THEN ThrownError(ErrUnknownModifier, parts[firstUnknown] \o <<" ","i","n"," ">> \o in)
        ELSE IF key \in RESERVED_KEYS THEN ThrownError(ErrReserved, key)
        ELSE ParsedVimKey(modifiers, key)

\* parseAngleBracketNotation whose switch has an empty default branch: a segment
\* that is no modifier letter is skipped
parseAngleBracketNotationSkipUnknown(in) ==
    LET content == sliceInner(in)
        parts == split(content, "-")
        n == Len(parts)
        keyPart == parts[n]
        known == SelectSeq(SubSeq(parts, 1, n - 1),
                           LAMBDA p : toUpperCase(p) \in ModifierLetters)
        modifiers == [i \in 1..Len(known) |-> ModifierOf(toUpperCase(known[i]))]
        key == ResolveKey(keyPart)
    IN  IF n = 0 THEN ThrownError(ErrInvalid, in)
        ELSE IF key \in RESERVED_KEYS THEN ThrownError(ErrReserved, key)
        ELSE ParsedVimKey(modifiers, key)

parseAngleBracketNotation(in) ==
    LET content == sliceInner(in)
        parts == split(content, "-")
        n == Len(parts)
        keyPart == parts[n]
        unknown == { i \in 1..(n - 1) : toUpperCase(parts[i]) \notin ModifierLetters }
        firstUnknown == CHOOSE i \in unknown : \A j \in unknown : i <= j
        modifiers == [i \in 1..(n - 1) |-> ModifierOf(toUpperCase(parts[i]))]
        key == ResolveKey(keyPart)
    IN  IF n = 0 THEN ThrownError(ErrInvalid, in)
        ELSE IF unknown # {}
             THEN ThrownError(ErrUnknownModifier, parts[firstUnknown] \o <<" ","i","n"," ">> \o in)
        ELSE IF key \in RESERVED_KEYS THEN ThrownError(ErrReserved, key)
        ELSE ParsedVimKey(modifiers, key)

\* Single character (backwards compatible)
ParseSingleChar(trimmed) == ParsedVimKey(<<>>, toLowerCase(trimmed))

\* parseVimKey that takes every input starting with '<' for bracket notation
parseVimKeyOpenBracket(in) ==
    LET trimmed == trim(in)
    IN  IF in = <<>> \/ trimmed = <<>> THEN ThrownError(ErrEmpty, <<>>)
        ELSE IF startsWith(trimmed, "<") /\ Len(trimmed) > 1
             THEN parseAngleBracketNotation(trimmed)
        ELSE IF Len(trimmed) = 1 THEN ParseSingleChar(trimmed)
        ELSE ThrownError(ErrInvalid, in)

parseVimKey(in) ==
    LET trimmed == trim(in)
    IN  IF in = <<>> \/ trimmed = <<>> THEN ThrownError(ErrEmpty, <<>>)
        ELSE IF startsWith(trimmed, "<") /\ endsWith(trimmed, ">")
             THEN parseAngleBracketNotation(trimmed)
        ELSE IF Len(trimmed) = 1 THEN ParseSingleChar(trimmed)
        ELSE ThrownError(ErrInvalid, in)

(***************************************************************************)
(* Notations handed to the parser                                          *)
(***************************************************************************)
Letters == { <<LowerSeq[i]>> : i \in 1..Len(LowerSeq) }

CapitalLetters == { <<UpperSeq[i]>> : i \in 1..Len(UpperSeq) }

SpecialNames == { e[1] : e \in SPECIAL_KEY_MAP }

ArrowNames ==
    { <<"A","r","r","o","w","U","p">>, <<"A","r","r","o","w","D","o","w","n">>, <<"A","r","r","o","w","L","e","f","t">>, <<"A","r","r","o","w","R","i","g","h","t">>,
      <<"U","p">>, <<"D","o","w","n">>, <<"L","e","f","t">>, <<"R","i","g","h","t">> }

\* key-name segments of generated bracket notations
KeyNames ==
    Letters \cup { <<"A">>, <<"X">> } \cup SpecialNames \cup ArrowNames
        \cup { <<"e","s","c">>, <<"e","n","t","e","r">>, <<"s","p","a","c","e">>, <<"t","a","b">>, <<"f","1">>, <<>>, <<"a","b","c">>, <<"*">>, <<"8">> }

\* modifier segments of generated bracket notations ("X" is not a modifier)
ModSegs == { <<"C">>, <<"S">>, <<"A">>, <<"M">>, <<"c">>, <<"s">>, <<"X">> }

SeqsUpTo(S, n) == UNION { [1..k -> S] : k \in 0..n }

\* the subsets of {C, S, A, M}, each written once in the order C, S, A, M
ModifierSets ==
    { c \o s \o a \o m : c \in { <<>>, <<<<"C">>>> }, s \in { <<>>, <<<<"S">>>> },
                         a \in { <<>>, <<<<"A">>>> }, m \in { <<>>, <<<<"M">>>> } }

RECURSIVE JoinMods(_)
JoinMods(mods) ==
    IF mods = <<>> THEN <<>> ELSE Head(mods) \o <<"-">> \o JoinMods(Tail(mods))

\* '<' mods joined by '-' name '>'
Bracket(mods, name) == <<"<">> \o JoinMods(mods) \o name \o <<">">>

BracketNotations ==
    { Bracket(m, k) : m \in SeqsUpTo(ModSegs, MaxMods) \cup ModifierSets, k \in KeyNames }

BareNotations ==
    Letters \cup CapitalLetters \cup { <<"5">>, <<"8">>, <<"*">>, <<"@">>, <<"#">>, <<"-">>, <<"<">>, <<">">> }

OtherNotations ==
    { <<>>, <<" "," "," ">>, <<"a","b","c">>, <<"<","C","-","a">>, <<"C","-","a",">">>, <<" ","a"," ">>, <<" ","Z">>, <<" ","<","C","-","a",">"," ">>, <<" ","<","E","s","c",">">>,
      <<"<","-","a",">">>, <<"<","C","t","r","l","-","a",">">>, <<" ","<","X","-","a",">"," ">>, <<"<","C","-","-",">">>, <<"a","b">>, <<"<","X","-","a">>, <<"<","E","s","c">>, <<" ","a","b","c"," ">> }

Notations == BracketNotations \cup BareNotations \cup OtherNotations

NotParsed == [ok |-> FALSE, modifiers |-> <<>>, key |-> <<>>, error |-> "not parsed", token |-> <<>>]

(***************************************************************************)
(* modals/arrow-key-selection-modal.ts                                     *)
(***************************************************************************)
\* sequenceKey: undefined
NoKey == <<"undefined">>

\* a KeyboardEvent: key and the four modifier flags
KeyEvent(k, c, a, s, m) ==
    [key |-> k, ctrlKey |-> c, altKey |-> a, shiftKey |-> s, metaKey |-> m]

NoEvent == KeyEvent(<<>>, FALSE, FALSE, FALSE, FALSE)

reservedKeys ==
    { <<"A","r","r","o","w","U","p">>, <<"A","r","r","o","w","D","o","w","n">>, <<"A","r","r","o","w","L","e","f","t">>, <<"A","r","r","o","w","R","i","g","h","t">>, <<"E","n","t","e","r">>, <<"E","s","c","a","p","e">> }

\* event.key.length === 1 && /[a-zA-Z]/.test(event.key)
isAlphabetic(ev) ==
    Len(ev.key) = 1 /\ (IsUpper(ev.key[1]) \/ IsLower(ev.key[1]))

eventKey(ev) ==
    IF isAlphabetic(ev) /\ IsUpper(ev.key[1]) THEN toLowerCase(ev.key) ELSE ev.key

\* Shift taken from the flag alone
IncludeShiftAlways(ev) == ev.shiftKey

\* Only include Shift for alphabetic characters or special keys
IncludeShift(ev) == ev.shiftKey /\ (isAlphabetic(ev) \/ Len(ev.key) > 1)

eventModifiers(ev) ==
    (IF ev.ctrlKey THEN <<"Ctrl">> ELSE <<>>)
        \o (IF ev.altKey THEN <<"Alt">> ELSE <<>>)
        \o (IF ev.metaKey THEN <<"Meta">> ELSE <<>>)
        \o (IF IncludeShift(ev) THEN <<"Shift">> ELSE <<>>)

\* Array.prototype.sort on modifier names: "Alt" < "Ctrl" < "Meta" < "Shift"
ModifierOrder == <<"Alt", "Ctrl", "Meta", "Shift">>

Occurrences(seq, x) == Cardinality({ i \in 1..Len(seq) : seq[i] = x })

Repeat(x, n) == [i \in 1..n |-> x]

sortModifiers(seq) ==
    Repeat(ModifierOrder[1], Occurrences(seq, ModifierOrder[1]))
        \o Repeat(ModifierOrder[2], Occurrences(seq, ModifierOrder[2]))
        \o Repeat(ModifierOrder[3], Occurrences(seq, ModifierOrder[3]))
        \o Repeat(ModifierOrder[4], Occurrences(seq, ModifierOrder[4]))

\* the body of the loop over this.items: the item has a sequence key, the key
\* parses, and the sorted modifier lists and the keys are equal
ItemMatches(item, ev) ==
    /\ item.sequenceKey # NoKey
    /\ item.sequenceKey # <<>>
    /\ LET p == parseVimKey(item.sequenceKey)
       IN  /\ p.ok
           /\ sortModifiers(p.modifiers) = sortModifiers(eventModifiers(ev))
           /\ p.key = eventKey(ev)

\* the handler without its reserved-key return, matching an item also when the
\* key name of its authored text resolves to the event's key
handleSequenceKeyEventNoReserved(ev, its) ==
    LET hits == { i \in 1..Len(its) :
                    \/ ItemMatches(its[i], ev)
                    \/ /\ startsWith(its[i].sequenceKey, "<")
                       /\ ResolveKey(sliceInner(its[i].sequenceKey)) = ev.key }
    IN  IF hits = {} THEN 0 ELSE CHOOSE i \in hits : \A j \in hits : i <= j

\* the position (1-based) of the item handleSequenceKeyEvent selects, 0 for none
handleSequenceKeyEvent(ev, its) ==
    IF ev.key \in reservedKeys THEN 0
    ELSE LET hits == { i \in 1..Len(its) : ItemMatches(its[i], ev) }
         IN  IF hits = {} THEN 0 ELSE CHOOSE i \in hits : \A j \in hits : i <= j

NoDispatch ==
    [event |-> NoEvent, eventKey |-> <<>>, eventModifiers |-> <<>>, matched |-> 0]

\* sequence keys of the items of the modal harness
ItemKeys ==
    { NoKey, <<"a">>, <<"A">>, <<"<","S","-","a",">">>, <<"*">>, <<"8">>, <<"<","C","-","a",">">>, <<"<","C","-","C","-","a",">">>, <<"<","T","a","b",">">>, <<"<","E","s","c",">">> }

ItemLists == { [i \in 1..Len(ks) |-> [sequenceKey |-> ks[i]]] : ks \in SeqsUpTo(ItemKeys, MaxItems) }

EventKeys ==
    { <<"a">>, <<"A">>, <<"*">>, <<"8">>, <<"@">>, <<"x">>, <<"T","a","b">>,
      <<"A","r","r","o","w","U","p">>, <<"A","r","r","o","w","D","o","w","n">>, <<"A","r","r","o","w","L","e","f","t">>, <<"A","r","r","o","w","R","i","g","h","t">>, <<"E","n","t","e","r">>, <<"E","s","c","a","p","e">> }

KeyEvents ==
    { KeyEvent(k, c, a, s, m) : k \in EventKeys, c \in BOOLEAN, a \in BOOLEAN,
                                s \in BOOLEAN, m \in BOOLEAN }

\* an onClose that leaves the keydown listener on the document
ModalOnCloseKeepsListener == UNCHANGED sequenceKeyHandler

\* ArrowKeySelectionModal.onClose: the keydown listener is removed from the
\* document with the handler and the capture flag it was added with
ModalOnClose == sequenceKeyHandler' = FALSE

\* Modal.close() on the selection modal: it leaves the screen, its scope is
\* popped and onClose runs
ModalClose ==
    /\ modalOpen' = FALSE
    /\ ModalOnClose

\* selectItem: onSelect(item), then close()
SelectItem(i, cause) ==
    /\ onSelectCalls' = Append(onSelectCalls, [item |-> i, by |-> cause])
    /\ ModalClose

\* the document's capture-phase keydown listener
SequenceKeyDown(ev) ==
    /\ sequenceKeyHandler
    /\ dispatch = NoDispatch
    /\ LET m == handleSequenceKeyEvent(ev, items)
       IN  /\ dispatch' = [event |-> ev,
                           eventKey |-> IF ev.key \in reservedKeys THEN <<>> ELSE eventKey(ev),
                           eventModifiers |-> IF ev.key \in reservedKeys THEN <<>>
                                              ELSE eventModifiers(ev),
                           matched |-> m]
           /\ IF m # 0
              THEN SelectItem(m, "sequence")
              ELSE UNCHANGED <<onSelectCalls, modalOpen, sequenceKeyHandler>>
    /\ UNCHANGED <<items, selectedIndex>>

\* scope.register([], key, ...): no modifier is held
ScopeMatches(ev, k) ==
    ev.key = k /\ ~ev.ctrlKey /\ ~ev.altKey /\ ~ev.shiftKey /\ ~ev.metaKey

\* an ArrowDown handler that stays on the last item
newIndexDownNoWrap(index, lastIndex) ==
    IF index < lastIndex THEN index + 1 ELSE lastIndex

\* newIndex of the ArrowDown handler
newIndexDown(index, lastIndex) ==
    IF index < lastIndex THEN index + 1 ELSE 0

\* newIndex of the ArrowUp handler
newIndexUp(index, lastIndex) ==
    IF index > 0 THEN index - 1 ELSE lastIndex

\* the scope's handlers for the event the sequence listener let through, which
\* ends the event's dispatch
ScopeKeyDown ==
    /\ dispatch # NoDispatch
    /\ dispatch' = NoDispatch
    /\ LET ev == dispatch.event
           lastIndex == Len(items) - 1
       IN  IF ~modalOpen \/ dispatch.matched # 0
           THEN UNCHANGED <<selectedIndex, onSelectCalls, modalOpen, sequenceKeyHandler>>
           ELSE IF ScopeMatches(ev, <<"A","r","r","o","w","U","p">>)
           THEN /\ selectedIndex' = newIndexUp(selectedIndex, lastIndex)
                /\ UNCHANGED <<onSelectCalls, modalOpen, sequenceKeyHandler>>
           ELSE IF ScopeMatches(ev, <<"A","r","r","o","w","D","o","w","n">>)
           THEN /\ selectedIndex' = newIndexDown(selectedIndex, lastIndex)
                /\ UNCHANGED <<onSelectCalls, modalOpen, sequenceKeyHandler>>
           ELSE IF ScopeMatches(ev, <<"E","n","t","e","r">>)
           THEN /\ IF selectedIndex + 1 \in 1..Len(items)
                   THEN SelectItem(selectedIndex + 1, "enter")
                   ELSE UNCHANGED <<onSelectCalls, modalOpen, sequenceKeyHandler>>
                /\ UNCHANGED selectedIndex
           ELSE IF ScopeMatches(ev, <<"E","s","c","a","p","e">>)
           THEN /\ ModalClose
                /\ UNCHANGED <<selectedIndex, onSelectCalls>>
           ELSE UNCHANGED <<selectedIndex, onSelectCalls, modalOpen, sequenceKeyHandler>>
    /\ UNCHANGED items

\* mouseenter on item i (0-based index): setSelectedIndex(index)
MouseEnter(i) ==
    /\ modalOpen
    /\ dispatch = NoDispatch
    /\ selectedIndex' = i
    /\ UNCHANGED <<items, modalOpen, onSelectCalls, sequenceKeyHandler, dispatch>>

\* click on item i (0-based index): selectItem(item)
Click(i) ==
    /\ modalOpen
    /\ dispatch = NoDispatch
    /\ SelectItem(i + 1, "click")
    /\ UNCHANGED <<items, selectedIndex, dispatch>>

\* the plugin closes the modal: the callback of a group command that replaces
\* it with a new modal, or onunload
ClosedByPlugin ==
    /\ modalOpen
    /\ dispatch = NoDispatch
    /\ ModalClose
    /\ UNCHANGED <<items, selectedIndex, onSelectCalls, dispatch>>

(***************************************************************************)
(* settings/command-setting-tab.ts                                         *)
(* A command is modelled by its sequenceKey and a group by its commands:   *)
(* the handlers below read no other field.                                 *)
(***************************************************************************)
Command(k) == [sequenceKey |-> k]

Group(cmds) == [commands |-> cmds]

\* DEFAULT_SETTINGS: one group of three commands without sequence keys
DEFAULT_SETTINGS == << Group(<< Command(NoKey), Command(NoKey), Command(NoKey) >>) >>

NoField == [group |-> 0, index |-> 0, text |-> <<>>, atFocus |-> NoKey]

NoEdit ==
    [group |-> 0, index |-> 0, value |-> <<>>, outcome |-> "none",
     atFocus |-> NoKey, shown |-> <<>>]

\* what is typed into a sequence-key input
EditValues ==
    { <<>>, <<"a">>, <<"A">>, <<"<","S","-","a",">">>, <<"<","C","-","S","-","x",">">>, <<"<","S","-","C","-","x",">">>, <<"a","b","c">>, <<"<","E","s","c",">">> }

TotalCommands(groups) ==
    LET RECURSIVE Sum(_)
        Sum(n) == IF n = 0 THEN 0 ELSE Len(groups[n].commands) + Sum(n - 1)
    IN  Sum(Len(groups))

\* array.splice(i, 1), i a 1-based position
RemoveAt(seq, i) == SubSeq(seq, 1, i - 1) \o SubSeq(seq, i + 1, Len(seq))

\* array.splice(i, 0, x), i a 0-based index not above the length
InsertAt(seq, i, x) == SubSeq(seq, 1, i) \o <<x>> \o SubSeq(seq, i + 1, Len(seq))

\* command.sequenceKey = k for command c of group g
SetSequenceKey(groups, g, c, k) ==
    [groups EXCEPT ![g].commands[c].sequenceKey = k]

\* text.setValue(command.sequenceKey || '')
DisplayedKey(cmd) == IF cmd.sequenceKey = NoKey THEN <<>> ELSE cmd.sequenceKey

\* normalizeKey: the parsed key with sorted modifiers and lower-cased key, or
\* null for a key that does not parse
NormalizedNull == [valid |-> FALSE, modifiers |-> <<>>, key |-> <<>>]

normalizeKey(keySeq) ==
    LET p == parseVimKey(keySeq)
    IN  IF p.ok
        THEN [valid |-> TRUE, modifiers |-> sortModifiers(p.modifiers),
              key |-> toLowerCase(p.key)]
        ELSE NormalizedNull

\* the duplicate check of validateKey within the command's group
IsDuplicate(groups, g, c, trimmedValue) ==
    LET normalized == normalizeKey(trimmedValue)
    IN  \E idx \in 1..Len(groups[g].commands) :
            /\ idx # c
            /\ groups[g].commands[idx].sequenceKey \notin { NoKey, <<>> }
            /\ LET existingNormalized == normalizeKey(groups[g].commands[idx].sequenceKey)
               IN  /\ normalized.valid
                   /\ existingNormalized.valid
                   /\ normalized.key = existingNormalized.key
                   /\ normalized.modifiers = existingNormalized.modifiers

\* validateKey without the try { parseVimKey(trimmedValue) } catch step
validateKeyNoParse(groups, g, c, value) ==
    LET trimmedValue == trim(value)
    IN  IF trimmedValue = <<>> THEN "empty"
        ELSE IF IsDuplicate(groups, g, c, trimmedValue) THEN "duplicate"
        ELSE "saved"

\* validateKey: "empty", "invalid", "duplicate" or "saved"
validateKey(groups, g, c, value) ==
    LET trimmedValue == trim(value)
    IN  IF trimmedValue = <<>> THEN "empty"
        ELSE IF ~parseVimKey(trimmedValue).ok THEN "invalid"
        ELSE IF IsDuplicate(groups, g, c, trimmedValue) THEN "duplicate"
        ELSE "saved"

\* the input of command c of group g takes the focus; it shows the stored key
FocusField(g, c) ==
    /\ field = NoField
    /\ field' = [group |-> g, index |-> c,
                 text |-> DisplayedKey(commandGroups[g].commands[c]),
                 atFocus |-> commandGroups[g].commands[c].sequenceKey]
    /\ lastEdit' = NoEdit
    /\ UNCHANGED commandGroups

\* onChange(value) of the focused input: only clearing is handled
ChangeField(value) ==
    /\ field # NoField
    /\ field' = [field EXCEPT !.text = value]
    /\ commandGroups' =
           IF trim(value) = <<>>
           THEN SetSequenceKey(commandGroups, field.group, field.index, NoKey)
           ELSE commandGroups
    /\ lastEdit' = NoEdit

\* blur of the focused input: validateKey(text.inputEl.value), which stores the
\* trimmed value when it is valid, and the revert of the text otherwise
BlurField ==
    /\ field # NoField
    /\ LET outcome == validateKey(commandGroups, field.group, field.index, field.text)
       IN  /\ commandGroups' =
                  IF outcome = "saved"
                  THEN SetSequenceKey(commandGroups, field.group, field.index, trim(field.text))
                  ELSE commandGroups
           /\ lastEdit' =
                  [group |-> field.group, index |-> field.index,
                   value |-> field.text, outcome |-> outcome,
                   atFocus |-> field.atFocus,
                   shown |-> IF outcome \in { "invalid", "duplicate" }
                             THEN DisplayedKey(commandGroups[field.group].commands[field.index])
                             ELSE field.text]
    /\ field' = NoField

\* '+ Add' of group g: the chosen command is pushed without a sequence key
AddCommand(g) ==
    /\ field = NoField
    /\ TotalCommands(commandGroups) < MaxCommands
    /\ commandGroups' =
           [commandGroups EXCEPT ![g].commands = Append(@, Command(NoKey))]
    /\ lastEdit' = NoEdit
    /\ UNCHANGED field

\* the trash button of command c of group g
DeleteCommand(g, c) ==
    /\ field = NoField
    /\ commandGroups' = [commandGroups EXCEPT ![g].commands = RemoveAt(@, c)]
    /\ lastEdit' = NoEdit
    /\ UNCHANGED field

\* addNewGroup
AddNewGroup ==
    /\ field = NoField
    /\ Len(commandGroups) < MaxGroups
    /\ commandGroups' = Append(commandGroups, Group(<<>>))
    /\ lastEdit' = NoEdit
    /\ UNCHANGED field

\* the trash button of group g, confirmed
DeleteGroup(g) ==
    /\ field = NoField
    /\ commandGroups' = RemoveAt(commandGroups, g)
    /\ lastEdit' = NoEdit
    /\ UNCHANGED field

\* handleDrop('group', sourceIndex, -1, targetIndex, -1), 0-based indices
MoveGroup(groups, sourceIndex, targetIndex) ==
    IF sourceIndex = targetIndex THEN groups
    ELSE InsertAt(RemoveAt(groups, sourceIndex + 1), targetIndex, groups[sourceIndex + 1])

\* handleDrop('command', sourceIndex, sourceGroupIndex, targetIndex,
\* targetGroupIndex), 0-based indices, targetGroupIndex -1 for none
MoveCommand(groups, sourceIndex, sourceGroupIndex, targetIndex, targetGroupIndex) ==
    LET tgi == IF targetGroupIndex = -1 THEN sourceGroupIndex ELSE targetGroupIndex
        sg == sourceGroupIndex + 1
        tg == tgi + 1
    IN  IF sg \notin 1..Len(groups) \/ tg \notin 1..Len(groups) THEN groups
        ELSE LET draggedCommand == groups[sg].commands[sourceIndex + 1]
                 rest == RemoveAt(groups[sg].commands, sourceIndex + 1)
             IN  IF sg = tg
                 THEN [groups EXCEPT ![sg].commands =
                          IF targetIndex < Len(rest)
                          THEN InsertAt(rest, targetIndex, draggedCommand)
                          ELSE Append(rest, draggedCommand)]
                 ELSE [groups EXCEPT
                          ![sg].commands = rest,
                          ![tg].commands =
                              IF targetIndex < Len(groups[tg].commands)
                              THEN InsertAt(groups[tg].commands, targetIndex, draggedCommand)
                              ELSE Append(groups[tg].commands, draggedCommand)]

\* a dragged group is dropped on group element t
DropGroupOnGroup(s, t) ==
    /\ field = NoField
    /\ commandGroups' = MoveGroup(commandGroups, s - 1, t - 1)
    /\ lastEdit' = NoEdit
    /\ UNCHANGED field

\* command c of group g is dropped on command element tc of group tg: the
\* command element's drop listener, which stops the propagation
DropCommandOnCommand(g, c, tg, tc) ==
    /\ field = NoField
    /\ commandGroups' = MoveCommand(commandGroups, c - 1, g - 1, tc - 1, tg - 1)
    /\ lastEdit' = NoEdit
    /\ UNCHANGED field

\* command c of group g is dropped on group element tg outside its command
\* elements.  Both drop listeners of the group element run, in the order they
\* were added: the one of setupDragAndDrop(groupEl, 'group', groupIndex), which
\* calls onDrop('command', commandIndex, groupIndex, index, -1), and then the
\* group's own, which calls handleDrop('command', commandIndex, groupIndex,
\* group.commands.length, groupIndex) with the length the group had when rendered.
DropCommandOnGroup(g, c, tg) ==
    /\ field = NoField
    /\ LET renderedLength == Len(commandGroups[tg].commands)
           first == MoveCommand(commandGroups, c - 1, g - 1, tg - 1, -1)
       IN  commandGroups' = MoveCommand(first, c - 1, g - 1, renderedLength, tg - 1)
    /\ lastEdit' = NoEdit
    /\ UNCHANGED field

(***************************************************************************)
(* plugin.ts: the group commands and the active selection modal            *)
(* A command is modelled here by what its obsidianCommand runs: 0 is a     *)
(* command outside the plugin, g > 0 is the command of group g.            *)
(***************************************************************************)
\* new ArrowKeySelectionModal(...) for group g, then modal.open()
Modal(g) == [group |-> g, open |-> TRUE]

\* the plugin's field and the modals, as one value for the operators below
PluginState == [modals |-> modals, active |-> activeCommandGroupModal]

\* a hook that clears the reference whichever modal closes
onCloseUnconditional(st, m) == [st EXCEPT !.active = 0]

\* modal.onClose as replaced by the callback: the reference is cleared only
\* when it is this modal
onClose(st, m) ==
    IF st.active = m THEN [st EXCEPT !.active = 0] ELSE st

\* Modal.close(): the modal leaves the screen and its onClose runs
close(st, m) == onClose([st EXCEPT !.modals[m].open = FALSE], m)

\* the callback of the command of group g, and executeCommandById; `running`
\* holds the group callbacks on the call stack, and a command that calls one of
\* them again recurses until the engine throws, which the callers catch
RECURSIVE callback(_, _, _, _)
RECURSIVE executeCommandById(_, _, _, _)
callback(cmds, st, g, running) ==
    IF Len(cmds[g]) = 0 THEN st
    ELSE IF Len(cmds[g]) = 1
         THEN executeCommandById(cmds, st, cmds[g][1], running \cup { g })
    ELSE LET closed == IF st.active # 0
                       THEN [close(st, st.active) EXCEPT !.active = 0]
                       ELSE st
         IN  [modals |-> Append(closed.modals, Modal(g)),
              active |-> Len(closed.modals) + 1]

executeCommandById(cmds, st, target, running) ==
    IF target = 0 \/ target \in running THEN st
    ELSE callback(cmds, st, target, running)

\* the user runs the command of group g (palette or hotkey)
TriggerGroup(g) ==
    /\ pluginLoaded
    /\ Len(modals) < MaxModals
    /\ LET st == callback(obsidianCommands, PluginState, g, {})
       IN  /\ modals' = st.modals
           /\ activeCommandGroupModal' = st.active
    /\ UNCHANGED <<obsidianCommands, pluginLoaded, appCommands>>

\* selectItem of open modal m on its item i: onSelect(item), which executes the
\* item's command, then this.close()
SelectModalItem(m, i) ==
    /\ modals[m].open
    /\ Len(modals) < MaxModals
    /\ LET target == obsidianCommands[modals[m].group][i]
           st == close(executeCommandById(obsidianCommands, PluginState, target, {}), m)
       IN  /\ modals' = st.modals
           /\ activeCommandGroupModal' = st.active
    /\ UNCHANGED <<obsidianCommands, pluginLoaded, appCommands>>

\* Escape, or a click outside, closes open modal m
CloseModal(m) ==
    /\ modals[m].open
    /\ LET st == close(PluginState, m)
       IN  /\ modals' = st.modals
           /\ activeCommandGroupModal' = st.active
    /\ UNCHANGED <<obsidianCommands, pluginLoaded, appCommands>>

\* onunload: the active modal is closed and the group commands are removed
Unload ==
    /\ pluginLoaded
    /\ LET st == IF activeCommandGroupModal # 0
                 THEN [close(PluginState, activeCommandGroupModal) EXCEPT !.active = 0]
                 ELSE PluginState
       IN  /\ modals' = st.modals
           /\ activeCommandGroupModal' = st.active
    /\ pluginLoaded' = FALSE
    /\ UNCHANGED <<obsidianCommands, appCommands>>

(***************************************************************************)
(* utils/id-generator.ts and utils/migration.ts                            *)
(* The settings handed to the migration are the groups with their IDs,     *)
(* names and commands, and the presence of the two legacy fields.          *)
(***************************************************************************)
\* a command and a group reduced to their IDs
IdCommand(id) == [id |-> id]

IdGroup(id, cmds) == [id |-> id, commands |-> cmds]

\* the value a MigrationResult starts with
MigrationResult(migrated, groupsUpdated, commandsUpdated) ==
    [migrated |-> migrated, groupsUpdated |-> groupsUpdated,
     commandsUpdated |-> commandsUpdated]

\* /\d/ for a single character
IsDigit(c) == c \in { "0", "1", "2", "3", "4", "5", "6", "7", "8", "9" }

\* /^prefix\d+$/.test(id)
MatchesPrefixDigits(id, prefix) ==
    /\ Len(id) > Len(prefix)
    /\ SubSeq(id, 1, Len(prefix)) = prefix
    /\ \A i \in (Len(prefix) + 1)..Len(id) : IsDigit(id[i])

\* /^(group|command)\d+$/.test(id)
isLegacyId(id) ==
    MatchesPrefixDigits(id, <<"g","r","o","u","p">>) \/ MatchesPrefixDigits(id, <<"c","o","m","m","a","n","d">>)

hasLegacyIds(settings) ==
    \E g \in 1..Len(settings.commandGroups) :
        \/ isLegacyId(settings.commandGroups[g].id)
        \/ \E c \in 1..Len(settings.commandGroups[g].commands) :
               isLegacyId(settings.commandGroups[g].commands[c].id)

ALPHABET == <<"A","B","C","D","E","F","G","H","I","J","K","L","M","N","O","P","Q","R","S","T","U","V","W","X","Y","Z","a","b","c","d","e","f","g","h","i","j","k","l","m","n","o","p","q","r","s","t","u","v","w","x","y","z","0","1","2","3","4","5","6","7","8","9">>

ID_LENGTH == 12

\* nanoid() on the bytes that crypto.getRandomValues wrote: each byte picks
\* the character at its value modulo the length of the alphabet
nanoid(randomValues) ==
    [i \in 1..ID_LENGTH |-> ALPHABET[(randomValues[i] % Len(ALPHABET)) + 1]]

\* outcomes of crypto.getRandomValues on twelve bytes: bytes below the length
\* of the alphabet, the same characters from bytes above it, and bytes that
\* pick the letters of 'group' and seven digits
RandomValues ==
    { <<23, 36, 55, 38, 15, 42, 61, 25, 45, 11, 52, 26>>,
      <<85, 98, 117, 100, 77, 104, 123, 87, 107, 73, 114, 88>>,
      <<32, 43, 40, 46, 41, 53, 54, 55, 56, 57, 58, 59>> }

\* outcomes of nanoid()
NanoIds == { nanoid(b) : b \in RandomValues }

\* generateGroupId() and generateCommandId() on an outcome of nanoid()
generateGroupId(nano) == nano

generateCommandId(nano) == <<"c","m","d","_">> \o nano

\* the IDs the migration loop replaces: <<g, 0>> for the ID of group g,
\* <<g, c>> for the ID of its command c
ReplacedIds(settings) ==
    { p \in (1..Len(settings.commandGroups)) \X (0..MaxIds) :
        IF p[2] = 0
        THEN MatchesPrefixDigits(settings.commandGroups[p[1]].id, <<"g","r","o","u","p">>)
        ELSE /\ p[2] <= Len(settings.commandGroups[p[1]].commands)
             /\ MatchesPrefixDigits(settings.commandGroups[p[1]].commands[p[2]].id,
                                    <<"c","o","m","m","a","n","d">>) }

\* a removal that deletes nextGroupId only
RemoveLegacyFieldsGroupOnly(settings) ==
    [settings EXCEPT !.nextGroupId = FALSE]

\* delete settings.nextGroupId; delete settings.nextCommandId
RemoveLegacyFields(settings) ==
    [settings EXCEPT !.nextGroupId = FALSE, !.nextCommandId = FALSE]

\* a loop that builds a new command for each replaced command ID and copies
\* only its obsidianCommand
MigrateIdsNewCommands(settings, nano) ==
    [settings EXCEPT !.commandGroups =
        [g \in 1..Len(settings.commandGroups) |->
            [settings.commandGroups[g] EXCEPT
                !.id = IF <<g, 0>> \in ReplacedIds(settings)
                       THEN generateGroupId(nano[<<g, 0>>])
                       ELSE settings.commandGroups[g].id,
                !.commands =
                    [c \in 1..Len(settings.commandGroups[g].commands) |->
                        IF <<g, c>> \in ReplacedIds(settings)
                        THEN [id |-> generateCommandId(nano[<<g, c>>]),
                              obsidianCommand |->
                                  settings.commandGroups[g].commands[c].obsidianCommand,
                              sequenceKey |-> NoKey]
                        ELSE settings.commandGroups[g].commands[c]]]]]

\* the loop over the groups and their commands; nano gives the outcome of
\* nanoid() for each replaced ID
MigrateIds(settings, nano) ==
    [settings EXCEPT !.commandGroups =
        [g \in 1..Len(settings.commandGroups) |->
            [settings.commandGroups[g] EXCEPT
                !.id = IF <<g, 0>> \in ReplacedIds(settings)
                       THEN generateGroupId(nano[<<g, 0>>])
                       ELSE settings.commandGroups[g].id,
                !.commands =
                    [c \in 1..Len(settings.commandGroups[g].commands) |->
                        [settings.commandGroups[g].commands[c] EXCEPT
                            !.id = IF <<g, c>> \in ReplacedIds(settings)
                                   THEN generateCommandId(nano[<<g, c>>])
                                   ELSE settings.commandGroups[g].commands[c].id]]]]]

\* migrateSettingsToHashIds: the settings after the call and the result
migrateSettingsToHashIds(settings, nano) ==
    IF ~hasLegacyIds(settings)
    THEN IF settings.nextGroupId \/ settings.nextCommandId
         THEN [settings |-> RemoveLegacyFields(settings),
               result |-> MigrationResult(TRUE, 0, 0)]
         ELSE [settings |-> settings, result |-> MigrationResult(FALSE, 0, 0)]
    ELSE [settings |-> RemoveLegacyFields(MigrateIds(settings, nano)),
          result |-> MigrationResult(TRUE,
              Cardinality({ p \in ReplacedIds(settings) : p[2] = 0 }),
              Cardinality({ p \in ReplacedIds(settings) : p[2] # 0 }))]

\* loadSettings runs the migration on the loaded data
Migrate ==
    /\ Len(migrations) < MaxRuns
    /\ \E nano \in [ReplacedIds(data) -> NanoIds] :
           LET out == migrateSettingsToHashIds(data, nano)
           IN  /\ data' = out.settings
               /\ migrations' = Append(migrations,
                      [before |-> data, settings |-> out.settings, result |-> out.result])

(***************************************************************************)
(* plugin.ts: registration of the group commands                           *)
(* The settings are the variable data; a registered command is modelled    *)
(* by its full ID and its name.                                            *)
(***************************************************************************)
\* this.manifest.id; the manifest is outside the sources and the code uses the
\* ID only as a prefix
ManifestId == <<"c","o","m","m","a","n","d","-","g","r","o","u","p">>

\* `${this.manifest.id}:`
CommandPrefix == ManifestId \o <<":">>

\* String.prototype.startsWith for a prefix of any length
startsWithPrefix(s, prefix) ==
    Len(s) >= Len(prefix) /\ SubSeq(s, 1, Len(prefix)) = prefix

\* an entry of app.commands.commands
AppCommand(id, name) == [id |-> id, name |-> name]

\* Plugin.addCommand: the command is stored under the plugin's prefix and
\* replaces the command that had its ID
addCommand(commands, id, name) ==
    { c \in commands : c.id # CommandPrefix \o id }
        \cup { AppCommand(CommandPrefix \o id, name) }

\* app.commands.removeCommand(fullCommandId)
removeCommand(commands, fullCommandId) ==
    { c \in commands : c.id # fullCommandId }

\* the forEach over settings.commandGroups from group g on: addCommand for
\* each group
RECURSIVE AddGroupCommands(_, _, _)
AddGroupCommands(commands, groups, g) ==
    IF g > Len(groups) THEN commands
    ELSE AddGroupCommands(addCommand(commands, groups[g].id, groups[g].name),
                          groups, g + 1)

\* the forEach over commandIdsToRemove: removeCommand for each ID
RECURSIVE RemoveCommands(_, _)
RemoveCommands(commands, commandIds) ==
    IF commandIds = {} THEN commands
    ELSE LET commandId == CHOOSE x \in commandIds : TRUE
         IN  RemoveCommands(removeCommand(commands, CommandPrefix \o commandId),
                            commandIds \ { commandId })

\* a registration that adds the commands of the groups and removes none
registerGroupCommandsNoRemove(settings, commands) ==
    AddGroupCommands(commands, settings.commandGroups, 1)

\* registerGroupCommands: the IDs registered under the prefix are collected,
\* those of the current groups are taken off the list, every group's command
\* is added, and the commands left on the list are removed
registerGroupCommands(settings, commands) ==
    LET existingCommands == { c \in commands : startsWithPrefix(c.id, CommandPrefix) }
        registeredIds ==
            { SubSeq(c.id, Len(CommandPrefix) + 1, Len(c.id)) : c \in existingCommands }
        commandIdsToRemove ==
            registeredIds \ { settings.commandGroups[g].id :
                                 g \in 1..Len(settings.commandGroups) }
    IN  RemoveCommands(AddGroupCommands(commands, settings.commandGroups, 1),
                       commandIdsToRemove)

\* saveSettingsAndRegisterCommands on the settings a handler has changed
saveSettingsAndRegisterCommands(settings) ==
    /\ data' = settings
    /\ appCommands' = registerGroupCommands(settings, appCommands)

\* addNewGroup(groupName): a group with a generated ID is pushed
RegisterAfterAdd(groupName, nano) ==
    /\ Len(data.commandGroups) < MaxRegistered
    /\ saveSettingsAndRegisterCommands(
           [data EXCEPT !.commandGroups =
               Append(@, [id |-> generateGroupId(nano), name |-> groupName,
                          commands |-> <<>>])])

\* the confirmed 'Delete Group' of group g
RegisterAfterDelete(g) ==
    saveSettingsAndRegisterCommands(
        [data EXCEPT !.commandGroups = RemoveAt(@, g)])

\* onChange of the name input of group g
RegisterAfterRename(g, value) ==
    saveSettingsAndRegisterCommands(
        [data EXCEPT !.commandGroups[g].name = value])

\* group s is dropped on group element t; the handler returns at once when
\* the two are the same
RegisterAfterMove(s, t) ==
    /\ s # t
    /\ saveSettingsAndRegisterCommands(
           [data EXCEPT !.commandGroups = MoveGroup(@, s - 1, t - 1)])

(***************************************************************************)
(* Specifications                                                          *)
(***************************************************************************)
parserVars == <<input, parsed>>

modalVars == <<items, modalOpen, selectedIndex, onSelectCalls, sequenceKeyHandler, dispatch>>

settingsVars == <<commandGroups, field, lastEdit>>

pluginVars ==
    <<obsidianCommands, modals, activeCommandGroupModal, pluginLoaded, appCommands>>

vars ==
    <<input, parsed, items, modalOpen, selectedIndex, onSelectCalls, sequenceKeyHandler,
      dispatch,
      commandGroups, field, lastEdit,
      obsidianCommands, modals, activeCommandGroupModal, pluginLoaded, appCommands,
      data, migrations>>

migrationVars == <<data, migrations>>

\* no settings loaded, no migration run
MigrationIdle ==
    /\ data = [commandGroups |-> <<>>, nextGroupId |-> FALSE, nextCommandId |-> FALSE]
    /\ migrations = <<>>

\* the plugin before onload: no group command registered, no modal constructed
PluginIdle ==
    /\ obsidianCommands = <<>>
    /\ modals = <<>>
    /\ activeCommandGroupModal = 0
    /\ pluginLoaded = FALSE
    /\ appCommands = {}

\* the settings as constructed, no input focused
SettingsIdle ==
    /\ commandGroups = DEFAULT_SETTINGS
    /\ field = NoField
    /\ lastEdit = NoEdit

\* no parser call under way
ParserIdle ==
    /\ input = <<>>
    /\ parsed = NotParsed

\* no modal constructed
NoModal ==
    /\ items = <<>>
    /\ modalOpen = FALSE
    /\ selectedIndex = 0
    /\ onSelectCalls = <<>>
    /\ sequenceKeyHandler = FALSE
    /\ dispatch = NoDispatch

\* Parser harness: one input, one call of parseVimKey
InitParser ==
    /\ input \in Notations
    /\ parsed = NotParsed
    /\ NoModal
    /\ SettingsIdle
    /\ PluginIdle
    /\ MigrationIdle

ParseKey ==
    /\ parsed = NotParsed
    /\ input \in Notations
    /\ parsed' = parseVimKey(input)
    /\ UNCHANGED <<input, modalVars, settingsVars, pluginVars, migrationVars>>

NextParser == ParseKey

SpecParser == InitParser /\ [][NextParser]_vars

\* Modal harness: a modal opened on an item list (the state after onOpen), then
\* key and mouse events
InitMatcher ==
    /\ ParserIdle
    /\ SettingsIdle
    /\ PluginIdle
    /\ MigrationIdle
    /\ items \in ItemLists
    /\ modalOpen = TRUE
    /\ selectedIndex = 0
    /\ onSelectCalls = <<>>
    /\ sequenceKeyHandler = TRUE
    /\ dispatch = NoDispatch

NextMatcher ==
    \/ \E ev \in KeyEvents : SequenceKeyDown(ev) /\ UNCHANGED <<parserVars, settingsVars, pluginVars, migrationVars>>
    \/ ScopeKeyDown /\ UNCHANGED <<parserVars, settingsVars, pluginVars, migrationVars>>
    \/ \E i \in 0..(Len(items) - 1) : MouseEnter(i) /\ UNCHANGED <<parserVars, settingsVars, pluginVars, migrationVars>>
    \/ \E i \in 0..(Len(items) - 1) : Click(i) /\ UNCHANGED <<parserVars, settingsVars, pluginVars, migrationVars>>
    \/ ClosedByPlugin /\ UNCHANGED <<parserVars, settingsVars, pluginVars, migrationVars>>

SpecMatcher == InitMatcher /\ [][NextMatcher]_vars

\* Settings tab: edits of the sequence-key inputs, additions, deletions and
\* drag-and-drop, from the default settings
InitSettings ==
    /\ ParserIdle
    /\ NoModal
    /\ SettingsIdle
    /\ PluginIdle
    /\ MigrationIdle

Groups == 1..Len(commandGroups)

CommandsOf(g) == 1..Len(commandGroups[g].commands)

NextSettings ==
    \/ \E g \in Groups : \E c \in CommandsOf(g) :
          FocusField(g, c) /\ UNCHANGED <<parserVars, modalVars, pluginVars, migrationVars>>
    \/ \E v \in EditValues : ChangeField(v) /\ UNCHANGED <<parserVars, modalVars, pluginVars, migrationVars>>
    \/ BlurField /\ UNCHANGED <<parserVars, modalVars, pluginVars, migrationVars>>
    \/ \E g \in Groups : AddCommand(g) /\ UNCHANGED <<parserVars, modalVars, pluginVars, migrationVars>>
    \/ \E g \in Groups : \E c \in CommandsOf(g) :
          DeleteCommand(g, c) /\ UNCHANGED <<parserVars, modalVars, pluginVars, migrationVars>>
    \/ AddNewGroup /\ UNCHANGED <<parserVars, modalVars, pluginVars, migrationVars>>
    \/ \E g \in Groups : DeleteGroup(g) /\ UNCHANGED <<parserVars, modalVars, pluginVars, migrationVars>>
    \/ \E s \in Groups : \E t \in Groups :
          DropGroupOnGroup(s, t) /\ UNCHANGED <<parserVars, modalVars, pluginVars, migrationVars>>
    \/ \E g \in Groups : \E c \in CommandsOf(g) : \E tg \in Groups : \E tc \in CommandsOf(tg) :
          DropCommandOnCommand(g, c, tg, tc) /\ UNCHANGED <<parserVars, modalVars, pluginVars, migrationVars>>
    \/ \E g \in Groups : \E c \in CommandsOf(g) : \E tg \in Groups :
          DropCommandOnGroup(g, c, tg) /\ UNCHANGED <<parserVars, modalVars, pluginVars, migrationVars>>

SpecSettings == InitSettings /\ [][NextSettings]_vars

\* the typed values that parseVimKey accepts, as validateKey stores them
ParsableKeys == { trim(v) : v \in { e \in EditValues : parseVimKey(e).ok } }

\* one group whose commands have no sequence key or one that parses
KeyedSettings ==
    { << Group(cmds) >> :
        cmds \in UNION { [1..n -> { Command(k) : k \in ParsableKeys \cup { NoKey } }] :
                           n \in 1..MaxCommands } }

\* Key fields: settings whose sequence keys all parse, then edits of the
\* sequence-key inputs only
InitKeyField ==
    /\ ParserIdle
    /\ NoModal
    /\ PluginIdle
    /\ MigrationIdle
    /\ commandGroups \in KeyedSettings
    /\ field = NoField
    /\ lastEdit = NoEdit

NextKeyField ==
    \/ \E g \in Groups : \E c \in CommandsOf(g) :
          FocusField(g, c) /\ UNCHANGED <<parserVars, modalVars, pluginVars, migrationVars>>
    \/ \E v \in EditValues : ChangeField(v) /\ UNCHANGED <<parserVars, modalVars, pluginVars, migrationVars>>
    \/ BlurField /\ UNCHANGED <<parserVars, modalVars, pluginVars, migrationVars>>

SpecKeyField == InitKeyField /\ [][NextKeyField]_vars

\* the commands of one group among n groups: none, one command, or two commands
\* of which one runs something outside the plugin
CommandLists(n) ==
    { <<>> } \cup { <<t>> : t \in 0..n } \cup { <<t, 0>> : t \in 0..n }
        \cup { <<0, t>> : t \in 1..n }

RegisteredGroups == UNION { [1..n -> CommandLists(n)] : n \in 1..MaxGroups }

\* Plugin: loaded with its group commands registered, then group triggers,
\* selections, closes and unload
InitPlugin ==
    /\ ParserIdle
    /\ NoModal
    /\ SettingsIdle
    /\ obsidianCommands \in RegisteredGroups
    /\ modals = <<>>
    /\ activeCommandGroupModal = 0
    /\ pluginLoaded = TRUE
    /\ appCommands = {}
    /\ MigrationIdle

NextPlugin ==
    \/ \E g \in 1..Len(obsidianCommands) :
          TriggerGroup(g) /\ UNCHANGED <<parserVars, modalVars, settingsVars, migrationVars>>
    \/ \E m \in 1..Len(modals) : \E i \in 1..Len(obsidianCommands[modals[m].group]) :
          SelectModalItem(m, i) /\ UNCHANGED <<parserVars, modalVars, settingsVars, migrationVars>>
    \/ \E m \in 1..Len(modals) :
          CloseModal(m) /\ UNCHANGED <<parserVars, modalVars, settingsVars, migrationVars>>
    \/ Unload /\ UNCHANGED <<parserVars, modalVars, settingsVars, migrationVars>>

SpecPlugin == InitPlugin /\ [][NextPlugin]_vars

GroupIds == { <<"g","r","o","u","p","1">>, <<"c","o","m","m","a","n","d","1">>, <<"a","b","c","1","2","3","d","e","f","4","5","6">> }

CommandIds == { <<"c","o","m","m","a","n","d","1">>, <<"g","r","o","u","p","1","2">>, <<"c","m","d","_","x","y","z","7","8","9","a","b","c","1","2","3">> }

\* the lists of groups that hold n IDs, those of groups and commands together
RECURSIVE GroupListsWith(_)
GroupListsWith(n) ==
    IF n = 0 THEN { <<>> }
    ELSE UNION { { <<IdGroup(gid, cmds)>> \o rest :
                     gid \in GroupIds,
                     cmds \in [1..k -> { IdCommand(c) : c \in CommandIds }],
                     rest \in GroupListsWith(n - 1 - k) } : k \in 0..(n - 1) }

\* the decimal digit n as a string
DigitOf(n) == << <<"0","1","2","3","4","5","6","7","8","9">>[n + 1] >>

\* the groups with their other properties: a name for each group, an
\* obsidianCommand for each command and a sequenceKey for the first command of
\* each group, all different from place to place
WithProperties(gs) ==
    [g \in 1..Len(gs) |->
        [id |-> gs[g].id,
         name |-> <<"G","r","o","u","p"," ">> \o DigitOf(g),
         commands |->
            [c \in 1..Len(gs[g].commands) |->
                [id |-> gs[g].commands[c].id,
                 obsidianCommand |-> <<"a","p","p",":","c","o","m","m","a","n","d","-">> \o DigitOf(g) \o DigitOf(c),
                 sequenceKey |-> IF c = 1 THEN <<"j">> ELSE NoKey]]]]

LoadedData ==
    { [commandGroups |-> WithProperties(gs), nextGroupId |-> a, nextCommandId |-> b] :
        gs \in UNION { GroupListsWith(n) : n \in 0..MaxIds },
        a \in BOOLEAN, b \in BOOLEAN }

\* Migration: settings as loaded from disk, then runs of the migration
InitMigration ==
    /\ ParserIdle
    /\ NoModal
    /\ SettingsIdle
    /\ PluginIdle
    /\ data \in LoadedData
    /\ migrations = <<>>

NextMigration == Migrate /\ UNCHANGED <<parserVars, modalVars, settingsVars, pluginVars>>

SpecMigration == InitMigration /\ [][NextMigration]_vars

\* Registration: settings loaded with up to one group and its command
\* registered when the layout was ready, then additions, deletions, renames
\* and reorders of groups in the settings tab
GroupNames == { <<"W","o","r","k">>, <<"H","o","m","e">> }

LoadedGroups ==
    { <<>>, << [id |-> <<"a","b","c","1","2","3","d","e","f","4","5","6">>, name |-> <<"W","o","r","k">>, commands |-> <<>>] >> }

\* a command of another plugin
ForeignCommands == { AppCommand(<<"e","d","i","t","o","r",":","s","a","v","e","-","f","i","l","e">>, <<"S","a","v","e"," ","c","u","r","r","e","n","t"," ","f","i","l","e">>) }

InitRegistry ==
    /\ ParserIdle
    /\ NoModal
    /\ SettingsIdle
    /\ obsidianCommands = <<>>
    /\ modals = <<>>
    /\ activeCommandGroupModal = 0
    /\ pluginLoaded = TRUE
    /\ migrations = <<>>
    /\ \E gs \in LoadedGroups :
           /\ data = [commandGroups |-> gs, nextGroupId |-> FALSE, nextCommandId |-> FALSE]
           /\ appCommands = registerGroupCommands(data, ForeignCommands)

registryFrame ==
    <<parserVars, modalVars, settingsVars, obsidianCommands, modals,
      activeCommandGroupModal, pluginLoaded, migrations>>

NextRegistry ==
    \/ \E groupName \in GroupNames, nano \in NanoIds :
          RegisterAfterAdd(groupName, nano) /\ UNCHANGED registryFrame
    \/ \E g \in 1..Len(data.commandGroups) :
          RegisterAfterDelete(g) /\ UNCHANGED registryFrame
    \/ \E g \in 1..Len(data.commandGroups), value \in GroupNames :
          RegisterAfterRename(g, value) /\ UNCHANGED registryFrame
    \/ \E s \in 1..Len(data.commandGroups), t \in 1..Len(data.commandGroups) :
          RegisterAfterMove(s, t) /\ UNCHANGED registryFrame

SpecRegistry == InitRegistry /\ [][NextRegistry]_vars

(***************************************************************************)
(* Properties                                                              *)
(***************************************************************************)
\* the modifiers of a ParsedVimKey as a set
ModSet(mods) == { mods[i] : i \in 1..Len(mods) }

\* sequences of modifier segments that are all, case-insensitively, C, S, A or M
ModifierSeqs ==
    { m \in SeqsUpTo(ModSegs, MaxMods) \cup ModifierSets :
        \A i \in 1..Len(m) : toUpperCase(m[i]) \in ModifierLetters }

\* the bracket notations with valid modifier segments and a key name among names
BracketsOf(names) == { Bracket(m, k) : m \in ModifierSeqs, k \in names }

\* '<Esc>' under every such sequence of modifier segments
EscapeNotations == BracketsOf({ <<"E","s","c">> })

\* '<CR>', '<Enter>', '<Return>' under every such sequence
EnterNotations == BracketsOf({ <<"C","R">>, <<"E","n","t","e","r">>, <<"R","e","t","u","r","n">> })

\* '<ArrowUp>' .. '<ArrowRight>' under every such sequence
ArrowNotations == BracketsOf({ <<"A","r","r","o","w","U","p">>, <<"A","r","r","o","w","D","o","w","n">>, <<"A","r","r","o","w","L","e","f","t">>, <<"A","r","r","o","w","R","i","g","h","t">> })

IsAsciiLetter(c) == <<c>> \in Letters \cup CapitalLetters

\* the canonical key of an event: uppercase letters lower-cased, all else unchanged
CanonicalEventKey(ev) ==
    IF Len(ev.key) = 1 /\ <<ev.key[1]>> \in CapitalLetters
    THEN toLowerCase(ev.key) ELSE ev.key

\* the modifier set of an event: Ctrl, Alt, Meta by their flags, Shift by its flag
\* unless the key is a single non-alphabetic character
EventModifierSet(ev) ==
    (IF ev.ctrlKey THEN {"Ctrl"} ELSE {})
        \cup (IF ev.altKey THEN {"Alt"} ELSE {})
        \cup (IF ev.metaKey THEN {"Meta"} ELSE {})
        \cup (IF ev.shiftKey /\ ~(Len(ev.key) = 1 /\ ~IsAsciiLetter(ev.key[1]))
              THEN {"Shift"} ELSE {})

\* the item's sequence key parses to a key equivalent to the event: same key,
\* same modifier set
EquivalentToEvent(item, ev) ==
    /\ item.sequenceKey \notin { NoKey, <<>> }
    /\ LET p == parseVimKey(item.sequenceKey)
       IN  /\ p.ok
           /\ p.key = CanonicalEventKey(ev)
           /\ ModSet(p.modifiers) = EventModifierSet(ev)

EquivalentItems == { i \in 1..Len(items) : EquivalentToEvent(items[i], dispatch.event) }

OnlyShift(ev) == ev.shiftKey /\ ~ev.ctrlKey /\ ~ev.altKey /\ ~ev.metaKey

NoModifier(ev) == ~ev.shiftKey /\ ~ev.ctrlKey /\ ~ev.altKey /\ ~ev.metaKey

\* C1: for every ASCII letter x, parseVimKey of the bare uppercase letter X, of
\* '<S-x>' and of '<s-x>' returns modifiers exactly {Shift} and key x.
C1_UppercaseIsShiftLetter ==
    parsed # NotParsed =>
        \A i \in 1..Len(LowerSeq) :
            input \in { <<UpperSeq[i]>>, Bracket(<<<<"S">>>>, <<LowerSeq[i]>>),
                        Bracket(<<<<"s">>>>, <<LowerSeq[i]>>) }
                => /\ parsed.ok
                   /\ ModSet(parsed.modifiers) = {"Shift"}
                   /\ parsed.key = <<LowerSeq[i]>>

\* C2: an item authored as 'A' is selected by the event {key 'a' or 'A', shift
\* only} and not by {key 'a', no modifier}; an item authored as 'a' is selected
\* only by the unshifted event.  Stated for the first item of the list.
C2_UppercaseItemFiresOnShift ==
    (dispatch # NoDispatch /\ Len(items) >= 1) =>
        LET ev == dispatch.event
        IN  /\ items[1].sequenceKey = <<"A">> =>
                  /\ (ev.key \in { <<"a">>, <<"A">> } /\ OnlyShift(ev)) => dispatch.matched = 1
                  /\ (ev.key = <<"a">> /\ NoModifier(ev)) => dispatch.matched # 1
            /\ items[1].sequenceKey = <<"a">> =>
                  /\ (ev.key = <<"a">> /\ NoModifier(ev)) => dispatch.matched = 1
                  /\ dispatch.matched = 1 => NoModifier(ev)

C4_SelectsIffEquivalent ==
    dispatch # NoDispatch =>
        /\ dispatch.matched # 0 => dispatch.matched \in EquivalentItems
        /\ EquivalentItems # {} => dispatch.matched # 0
        /\ EquivalentItems = {} =>
              /\ dispatch.matched = 0
              /\ onSelectCalls = <<>>
              /\ modalOpen

\* C5: when several items are equivalent to the event, the first of them in
\* list order is selected, and onSelect is called for it alone.
C5_FirstEquivalentWins ==
    (dispatch # NoDispatch /\ Cardinality(EquivalentItems) >= 2) =>
        LET first == CHOOSE i \in EquivalentItems : \A j \in EquivalentItems : i <= j
        IN  /\ dispatch.matched = first
            /\ onSelectCalls = <<[item |-> first, by |-> "sequence"]>>

C8_ArrowKeysReserved ==
    ( /\ parsed # NotParsed
      /\ input \in ArrowNotations )
        => (~parsed.ok /\ parsed.error = ErrReserved)

\* two sequence keys parse to equivalent ParsedKeys: identical key, identical
\* modifier set
EquivalentKeys(k1, k2) ==
    LET p1 == parseVimKey(k1)
        p2 == parseVimKey(k2)
    IN  /\ p1.ok
        /\ p2.ok
        /\ p1.key = p2.key
        /\ ModSet(p1.modifiers) = ModSet(p2.modifiers)

\* the sequence keys of the other commands of the edited command's group
OtherKeysOfEdit ==
    { commandGroups[lastEdit.group].commands[i].sequenceKey :
        i \in (1..Len(commandGroups[lastEdit.group].commands)) \ { lastEdit.index } }
        \ { NoKey }

\* C9: an edit that parses is rejected as a duplicate iff another command of the
\* group has an equivalent sequence key; '<S-C-x>' is rejected when '<C-S-x>'
\* exists, 'A' is rejected when '<S-a>' exists, 'A' is accepted when the only
\* other key is 'a'.
C9_DuplicateIffEquivalent ==
    lastEdit.outcome \in { "duplicate", "saved" } =>
        /\ lastEdit.outcome = "duplicate"
              <=> \E k \in OtherKeysOfEdit : EquivalentKeys(k, trim(lastEdit.value))
        /\ (lastEdit.value = <<"<","S","-","C","-","x",">">> /\ <<"<","C","-","S","-","x",">">> \in OtherKeysOfEdit)
              => lastEdit.outcome = "duplicate"
        /\ (lastEdit.value = <<"A">> /\ <<"<","S","-","a",">">> \in OtherKeysOfEdit)
              => lastEdit.outcome = "duplicate"
        /\ (lastEdit.value = <<"A">> /\ OtherKeysOfEdit = { <<"a">> })
              => lastEdit.outcome = "saved"

\* C10: in every reachable settings state no two commands of the same group
\* have equivalent sequence keys.
C10_KeysUniqueInGroup ==
    \A g \in 1..Len(commandGroups) :
        \A i, j \in 1..Len(commandGroups[g].commands) :
            ( /\ i # j
              /\ commandGroups[g].commands[i].sequenceKey # NoKey
              /\ commandGroups[g].commands[j].sequenceKey # NoKey )
                => ~EquivalentKeys(commandGroups[g].commands[i].sequenceKey,
                                   commandGroups[g].commands[j].sequenceKey)

\* C11: every stored sequenceKey is undefined or a string that parseVimKey
\* accepts, whatever is typed into the key fields.
C11_StoredKeysParse ==
    \A g \in 1..Len(commandGroups) :
        \A c \in 1..Len(commandGroups[g].commands) :
            \/ commandGroups[g].commands[c].sequenceKey = NoKey
            \/ parseVimKey(commandGroups[g].commands[c].sequenceKey).ok

\* an unparsable text was just blurred in a group that holds a stored key
C11_Witness ==
    /\ lastEdit.outcome = "invalid"
    /\ ~parseVimKey(trim(lastEdit.value)).ok
    /\ \E c \in 1..Len(commandGroups[lastEdit.group].commands) :
           commandGroups[lastEdit.group].commands[c].sequenceKey # NoKey
    /\ commandGroups[lastEdit.group].commands[lastEdit.index].sequenceKey
           # trim(lastEdit.value)

\* the trimmed input is wrapped in '<' ... '>'
IsBracketed(in) == startsWith(trim(in), "<") /\ endsWith(trim(in), ">")

\* the dash-separated segments of a bracketed input
Segments(in) == split(sliceInner(trim(in)), "-")

ModifierSegments(in) == SubSeq(Segments(in), 1, Len(Segments(in)) - 1)

KeySegment(in) == Segments(in)[Len(Segments(in))]

\* modifier segments that are modifier letters, no letter twice in either case
DistinctModifierLetters(mods) ==
    /\ \A i \in 1..Len(mods) : toUpperCase(mods[i]) \in ModifierLetters
    /\ \A i, j \in 1..Len(mods) : toUpperCase(mods[i]) = toUpperCase(mods[j]) => i = j

ModifierForms == ModifierLetters \cup { toLowerCase(l) : l \in ModifierLetters }

\* the same modifier letters in every order and every case
Rewritings(mods) ==
    { m \in [1..Len(mods) -> ModifierForms] :
        { toUpperCase(m[i]) : i \in 1..Len(mods) }
            = { toUpperCase(mods[i]) : i \in 1..Len(mods) } }

\* two parser results are both errors or equivalent ParsedKeys
EquivalentParse(p, q) ==
    /\ p.ok = q.ok
    /\ p.ok => (p.key = q.key /\ ModSet(p.modifiers) = ModSet(q.modifiers))

\* C12: for bracket notation with distinct modifier letters, the result does
\* not depend on the order of the modifier segments nor on their case;
\* '<C-S-x>', '<S-C-x>' and '<c-s-x>' give equivalent ParsedKeys.
C12_ModifierOrderAndCase ==
    (parsed # NotParsed /\ IsBracketed(input)
        /\ DistinctModifierLetters(ModifierSegments(input)))
    => /\ \A m \in Rewritings(ModifierSegments(input)) :
              EquivalentParse(parseVimKey(Bracket(m, KeySegment(input))), parsed)
       /\ input = <<"<","C","-","S","-","x",">">> =>
              /\ parsed.ok
              /\ EquivalentParse(parseVimKey(<<"<","S","-","C","-","x",">">>), parsed)
              /\ EquivalentParse(parseVimKey(<<"<","c","-","s","-","x",">">>), parsed)

\* '<S-C-x>' was parsed to key 'x' with Ctrl and Shift
C12_Witness ==
    /\ input = <<"<","S","-","C","-","x",">">>
    /\ parsed.ok
    /\ parsed.key = <<"x">>
    /\ ModSet(parsed.modifiers) = { "Ctrl", "Shift" }
    /\ parsed.modifiers # parseVimKey(<<"<","C","-","S","-","x",">">>).modifiers

\* every modifier segment of a bracketed input is one of C, S, A, M in either case
ModifiersKnown(in) ==
    \A i \in 1..Len(ModifierSegments(in)) :
        toUpperCase(ModifierSegments(in)[i]) \in ModifierLetters

\* the name is in the special-key table when case is ignored
InTableIgnoringCase(name) ==
    \E e \in SPECIAL_KEY_MAP : toLowerCase(e[1]) = toLowerCase(name)

\* the table's value for a name, the exact entry first, then ignoring case
TableValueIgnoringCase(name) ==
    IF HasSpecialKey(name) THEN SpecialKey(name)
    ELSE (CHOOSE e \in SPECIAL_KEY_MAP : toLowerCase(e[1]) = toLowerCase(name))[2]

\* C13: the key-name segment is looked up in the special-key table with its
\* exact case and then case-insensitively: '<esc>' and '<enter>' are rejected
\* as reserved, '<space>' gives ' ', '<tab>' gives 'Tab', '<f1>' gives 'F1'.
C13_KeyNameLookupIgnoresCase ==
    (parsed # NotParsed /\ IsBracketed(input) /\ ModifiersKnown(input)
        /\ InTableIgnoringCase(KeySegment(input)))
    => LET key == TableValueIgnoringCase(KeySegment(input))
       IN  IF key \in { <<"E","n","t","e","r">>, <<"E","s","c","a","p","e">> }
           THEN ~parsed.ok /\ parsed.error = ErrReserved
           ELSE parsed.ok /\ parsed.key = key

\* C14: the modifiers of every returned ParsedKey contain each of Ctrl, Shift,
\* Alt, Meta at most once, also when the notation repeats a modifier letter.
C14_ModifiersAtMostOnce ==
    parsed.ok =>
        \A i, j \in 1..Len(parsed.modifiers) :
            parsed.modifiers[i] = parsed.modifiers[j] => i = j

\* the canonical special-key names: the values of the special-key table
CanonicalKeyNames == { e[2] : e \in SPECIAL_KEY_MAP }

\* C15: the key of every returned ParsedKey is exactly one character (lowercase
\* if a letter) or a canonical special-key name; never the empty string and
\* never a multi-character literal that is not in the table.
C15_KeyIsCanonicalToken ==
    parsed.ok =>
        \/ Len(parsed.key) = 1 /\ ~IsUpper(parsed.key[1])
        \/ parsed.key \in CanonicalKeyNames

\* the first modifier segment of a bracketed input that is no modifier letter
FirstUnknownSegment(in) ==
    LET mods == ModifierSegments(in)
        i == CHOOSE k \in 1..Len(mods) :
                 /\ toUpperCase(mods[k]) \notin ModifierLetters
                 /\ \A j \in 1..(k - 1) : toUpperCase(mods[j]) \in ModifierLetters
    IN  mods[i]

\* C16: a bracketed input with a segment before the last that is not, in either
\* case, one of C, S, A, M fails with the unknown-modifier error, which names
\* the offending segment and the input; no ParsedKey is returned and the error
\* is neither the reserved-key nor the invalid-notation error.
C16_UnknownModifierError ==
    (parsed # NotParsed /\ IsBracketed(input) /\ ~ModifiersKnown(input))
    => /\ ~parsed.ok
       /\ parsed.error = ErrUnknownModifier
       /\ parsed.error \notin { ErrReserved, ErrInvalid, ErrEmpty }
       /\ parsed.token = FirstUnknownSegment(input) \o <<" ","i","n"," ">> \o trim(input)

\* '<X-Esc>', an unknown modifier before a reserved key name, was refused for
\* its modifier
C16_Witness ==
    /\ input = <<"<","X","-","E","s","c",">">>
    /\ ~parsed.ok
    /\ parsed.error = ErrUnknownModifier
    /\ parsed.token = <<"X"," ","i","n"," ","<","X","-","E","s","c",">">>

\* C17: an input whose trimmed form is longer than one character and is not
\* wrapped in '<' ... '>' fails with the invalid-notation error; '<C-a' is an
\* invalid-notation error, not an unknown-modifier error, and so is 'abc'.
C17_InvalidNotationError ==
    (parsed # NotParsed /\ Len(trim(input)) > 1 /\ ~IsBracketed(input))
    => /\ ~parsed.ok
       /\ parsed.error = ErrInvalid
       /\ parsed.error # ErrUnknownModifier
       /\ parsed.token = input

\* the unclosed bracket '<X-a', whose first segment is no modifier letter, was
\* refused as invalid notation
C17_Witness ==
    /\ input = <<"<","X","-","a">>
    /\ ~parsed.ok
    /\ parsed.error = ErrInvalid

\* the modals that are open
OpenModals == { m \in 1..Len(modals) : modals[m].open }

\* C18: at most one modal opened by the plugin is open, and
\* activeCommandGroupModal refers to the open modal when one is open and is
\* null otherwise.
C18_SingleActiveModal ==
    /\ Cardinality(OpenModals) <= 1
    /\ activeCommandGroupModal # 0 => activeCommandGroupModal \in OpenModals
    /\ OpenModals # {} => activeCommandGroupModal \in OpenModals

\* a selection in an older modal ran a group command: the older modal is closed
\* and the reference is the newer, open modal
C18_Witness ==
    /\ Len(modals) >= 2
    /\ ~modals[1].open
    /\ modals[2].open
    /\ activeCommandGroupModal = 2
    /\ \E i \in 1..Len(obsidianCommands[modals[1].group]) :
           obsidianCommands[modals[1].group][i] # 0

\* the group IDs and command IDs of a settings value, in place
IdsOf(settings) ==
    [g \in 1..Len(settings.commandGroups) |->
        <<settings.commandGroups[g].id,
          [c \in 1..Len(settings.commandGroups[g].commands) |->
              settings.commandGroups[g].commands[c].id]>>]

\* C19: after the migration has run once, a second run returns migrated =
\* false, groupsUpdated = 0, commandsUpdated = 0 and leaves every ID unchanged.
C19_MigrationIdempotent ==
    \A k \in 2..Len(migrations) :
        /\ migrations[k].result = MigrationResult(FALSE, 0, 0)
        /\ IdsOf(migrations[k].settings) = IdsOf(migrations[k - 1].settings)

\* C20: after migrateSettingsToHashIds returns, no group ID and no command ID
\* is in legacy format.
C20_NoLegacyIdAfterMigration ==
    \A k \in 1..Len(migrations) : ~hasLegacyIds(migrations[k].settings)

\* the places of the IDs of a settings value: <<g, 0>> for group g, <<g, c>>
\* for its command c
IdPlaces(settings) ==
    { p \in (1..Len(settings.commandGroups)) \X (0..MaxIds) :
        p[2] <= Len(settings.commandGroups[p[1]].commands) }

IdAt(settings, p) ==
    IF p[2] = 0 THEN settings.commandGroups[p[1]].id
    ELSE settings.commandGroups[p[1]].commands[p[2]].id

\* the settings have the groups and commands of the run's pre-state, place by
\* place
SameShape(a, b) ==
    /\ Len(a.commandGroups) = Len(b.commandGroups)
    /\ \A g \in 1..Len(a.commandGroups) :
           Len(a.commandGroups[g].commands) = Len(b.commandGroups[g].commands)

\* C21: groupsUpdated is the number of groups whose ID was legacy before the
\* call, commandsUpdated the number of commands whose ID was legacy; exactly
\* those IDs are replaced and every other ID is unchanged.
C21_CountsAndReplacedIds ==
    \A k \in 1..Len(migrations) :
        LET before == migrations[k].before
            after == migrations[k].settings
            legacy == { p \in IdPlaces(before) : isLegacyId(IdAt(before, p)) }
        IN  /\ SameShape(before, after)
            /\ migrations[k].result.groupsUpdated
                   = Cardinality({ p \in legacy : p[2] = 0 })
            /\ migrations[k].result.commandsUpdated
                   = Cardinality({ p \in legacy : p[2] # 0 })
            /\ \A p \in IdPlaces(before) :
                   IdAt(after, p) = IdAt(before, p) <=> p \notin legacy


\* C22: the migration changes nothing but id fields and the two legacy
\* fields: every group's name, every command's obsidianCommand and
\* sequenceKey, and the number and order of the groups and of the commands in
\* each group are after the call what they were before.
C22_OtherPropertiesPreserved ==
    \A k \in 1..Len(migrations) :
        LET before == migrations[k].before.commandGroups
            after == migrations[k].settings.commandGroups
        IN  /\ Len(after) = Len(before)
            /\ \A g \in 1..Len(before) :
                   /\ after[g].name = before[g].name
                   /\ Len(after[g].commands) = Len(before[g].commands)
                   /\ \A c \in 1..Len(before[g].commands) :
                          /\ after[g].commands[c].obsidianCommand
                                 = before[g].commands[c].obsidianCommand
                          /\ after[g].commands[c].sequenceKey
                                 = before[g].commands[c].sequenceKey

\* a run replaced the ID of a group and the ID of a command that has a
\* sequence key
C22_Witness ==
    \E k \in 1..Len(migrations) :
        LET before == migrations[k].before
            after == migrations[k].settings
        IN  \E p \in IdPlaces(before), q \in IdPlaces(before) :
                /\ p[2] = 0
                /\ q[2] # 0
                /\ IdAt(after, p) # IdAt(before, p)
                /\ IdAt(after, q) # IdAt(before, q)
                /\ before.commandGroups[q[1]].commands[q[2]].sequenceKey # NoKey


\* C23: after the migration returns, the settings have neither a nextGroupId
\* nor a nextCommandId field; when one of them was present and no ID was
\* legacy, the result is migrated = true with both counts 0; when no ID was
\* legacy and neither field was present, the result is migrated = false with
\* both counts 0 and the settings are unchanged.
C23_LegacyFieldsRemoved ==
    \A k \in 1..Len(migrations) :
        LET before == migrations[k].before
            after == migrations[k].settings
        IN  /\ ~after.nextGroupId
            /\ ~after.nextCommandId
            /\ ~hasLegacyIds(before) /\ (before.nextGroupId \/ before.nextCommandId)
                   => migrations[k].result = MigrationResult(TRUE, 0, 0)
            /\ ~hasLegacyIds(before) /\ ~before.nextGroupId /\ ~before.nextCommandId
                   => /\ migrations[k].result = MigrationResult(FALSE, 0, 0)
                      /\ after = before

\* a run on settings without legacy IDs that had the nextCommandId field
\* only, then a second run on its outcome, which has neither field
C23_Witness ==
    /\ Len(migrations) = 2
    /\ migrations[1].before.commandGroups # <<>>
    /\ ~hasLegacyIds(migrations[1].before)
    /\ ~migrations[1].before.nextGroupId
    /\ migrations[1].before.nextCommandId
    /\ migrations[1].result = MigrationResult(TRUE, 0, 0)
    /\ migrations[2].before = migrations[1].settings
    /\ migrations[2].result = MigrationResult(FALSE, 0, 0)


\* /^[A-Za-z0-9]{12}$/.test(id)
IsHashFormat(id) ==
    /\ Len(id) = 12
    /\ \A i \in 1..Len(id) : \E j \in 1..Len(ALPHABET) : id[i] = ALPHABET[j]

\* C24: generated IDs are never in legacy format: the ID that replaces a
\* group ID is 12 characters of A-Z, a-z, 0-9, the ID that replaces a
\* command ID is 'cmd_' followed by 12 such characters, and isLegacyId is
\* false for both.
C24_GeneratedIdsNotLegacy ==
    \A k \in 1..Len(migrations) :
        LET before == migrations[k].before
            after == migrations[k].settings
        IN  \A p \in ReplacedIds(before) :
                /\ ~isLegacyId(IdAt(after, p))
                /\ IF p[2] = 0
                   THEN IsHashFormat(IdAt(after, p))
                   ELSE /\ Len(IdAt(after, p)) = 16
                        /\ SubSeq(IdAt(after, p), 1, 4) = <<"c","m","d","_">>
                        /\ IsHashFormat(SubSeq(IdAt(after, p), 5, 16))


\* the key events that can fire an item authored with notation k: the events
\* of the harness and every event whose key is the parsed key or its upper
\* case (the matcher compares the parsed key with the event's key, lower-cased
\* when it is an upper-case letter, so no other key name can match)
FiringCandidates(k) ==
    KeyEvents \cup
        { KeyEvent(x, c, a, s, m) :
            x \in { parseVimKey(k).key, toUpperCase(parseVimKey(k).key) },
            c \in BOOLEAN, a \in BOOLEAN, s \in BOOLEAN, m \in BOOLEAN }

\* C25: every sequence key that parseVimKey accepts can fire: when an item
\* authored with an accepted notation is the only item of the list, some key
\* event makes the matcher select it.
C25_AcceptedKeysCanFire ==
    /\ Len(items) = 1
    /\ items[1].sequenceKey # NoKey
    /\ parseVimKey(items[1].sequenceKey).ok
    => \E ev \in FiringCandidates(items[1].sequenceKey) :
           handleSequenceKeyEvent(ev, items) = 1


\* C27: each open selection modal invokes onSelect at most once: a click, Enter
\* on the selected item or a matching sequence key calls onSelect with an item
\* of the list and closes the modal, the keydown listener is off the document
\* once the modal has closed (by selection, Escape or the plugin), and no step
\* taken after the close adds a call of onSelect.
C27_OnSelectAtMostOnce ==
    /\ [](/\ Len(onSelectCalls) <= 1
          /\ \A k \in 1..Len(onSelectCalls) : onSelectCalls[k].item \in 1..Len(items)
          /\ onSelectCalls # <<>> => ~modalOpen
          /\ ~modalOpen => ~sequenceKeyHandler)
    /\ [][~modalOpen => onSelectCalls' = onSelectCalls]_vars

\* a sequence key selected an item of a two-item list, which closed the modal,
\* and the key event's dispatch has ended
C27_Witness ==
    /\ Len(items) = 2
    /\ Len(onSelectCalls) = 1
    /\ onSelectCalls[1].by = "sequence"
    /\ ~modalOpen
    /\ dispatch = NoDispatch


\* the scope runs its handler for key k in this step: the dispatch of an event
\* with that key and no modifier ends while the modal is open
ScopeHandles(k) ==
    /\ dispatch # NoDispatch
    /\ dispatch' = NoDispatch
    /\ modalOpen
    /\ dispatch.matched = 0
    /\ ScopeMatches(dispatch.event, k)

\* C29: in a selection modal with n >= 1 items, ArrowDown sets selectedIndex
\* to (selectedIndex + 1) mod n and ArrowUp sets it to (selectedIndex - 1)
\* mod n, so after any sequence of ArrowUp, ArrowDown and hover events
\* selectedIndex is in 0..n-1, and Enter selects the item at selectedIndex,
\* which exists.
C29_SelectionWrapsInRange ==
    /\ [](Len(items) >= 1 =>
            /\ selectedIndex \in 0..(Len(items) - 1)
            /\ \A k \in 1..Len(onSelectCalls) :
                   onSelectCalls[k].by = "enter" =>
                       onSelectCalls[k].item \in 1..Len(items))
    /\ [][Len(items) >= 1 =>
            /\ ScopeHandles(<<"A","r","r","o","w","D","o","w","n">>) =>
                   selectedIndex' = (selectedIndex + 1) % Len(items)
            /\ ScopeHandles(<<"A","r","r","o","w","U","p">>) =>
                   selectedIndex' = (selectedIndex - 1) % Len(items)
            /\ ScopeHandles(<<"E","n","t","e","r">>) =>
                   onSelectCalls' = Append(onSelectCalls,
                       [item |-> selectedIndex + 1, by |-> "enter"])]_vars

\* Enter selected the second item of a two-item list, which arrow or hover
\* events had selected before
C29_Witness ==
    /\ Len(items) = 2
    /\ selectedIndex = 1
    /\ onSelectCalls = << [item |-> 2, by |-> "enter"] >>


\* C26: when blur validation rejects the content of a sequence-key field
\* (parse error or duplicate), the command's stored sequence key afterwards is
\* the value it had when the field was focused and the field shows that value
\* again, whatever was typed in between.
C26_RejectedBlurRestoresKey ==
    lastEdit.outcome \in { "invalid", "duplicate" } =>
        /\ commandGroups[lastEdit.group].commands[lastEdit.index].sequenceKey
               = lastEdit.atFocus
        /\ lastEdit.shown = DisplayedKey(Command(lastEdit.atFocus))


\* the commands registered under the plugin's prefix
PluginCommands == { c \in appCommands : startsWithPrefix(c.id, CommandPrefix) }

====
